---- MODULE Spec2Model ----
(***************************************************************************)
(* Four programs of the repository, each with its own variables and its    *)
(* own specification; a program's actions leave the others' variables      *)
(* alone.  get_model, maxFscore and the cifar10 conversion script follow   *)
(* the attention layer, each under a heading of its own.                   *)
(*                                                                         *)
(* Rotary position attention (RoformerAttention) of                        *)
(* official/nlp/modeling/layers/roformer_attention.py.                     *)
(*                                                                         *)
(* Tensors are modelled by their [length, width] view: the batch axis and  *)
(* the heads axis only broadcast (the tables carry singleton axes there),  *)
(* so every batch entry and every head sees the computation modelled here. *)
(*                                                                         *)
(* Numbers are exact.  An angle is an integer number of units of 1/Base    *)
(* radian, and a scalar is an element of the ring generated by the         *)
(* integers, 1/2 and sin/cos of such angles, written as a polynomial in    *)
(* z = e^(i/Base) and 1/z with Gaussian-integer coefficients over a power  *)
(* of two.  As e^(i/Base) is transcendental, two scalars are equal as real *)
(* numbers exactly when their normal forms are equal.  The rounding of the *)
(* compute dtype (line 30) is not modelled.                                *)
(***************************************************************************)
EXTENDS Integers, Sequences, FiniteSets, TLC

\* Longest query or key sequence of a call.
MaxLen == 3
\* Largest per-head width (self._key_dim) of a layer.
MaxKeyDim == 4
\* Number of call frames that may be active at once.
NumCalls == 2

\* The masks a maxFscore object is given between two results, and the masks of
\* one batch.
MaxMasks == 2

MaxBatch == 2

\* tf.constant(10000.0): the base of the frequency bank.
Base == 10000

(***************************************************************************)
(* Scalars: [d |-> k, t |-> f] is (1/2^k) * SUM_e (f[e][1] + i*f[e][2])*z^e *)
(* in normal form: no zero coefficient, k least.                           *)
(***************************************************************************)
CZero == <<0, 0>>

CAdd(a, b) == <<a[1] + b[1], a[2] + b[2]>>

CMul(a, b) == <<a[1] * b[1] - a[2] * b[2], a[1] * b[2] + a[2] * b[1]>>

CScale(n, a) == <<n * a[1], n * a[2]>>

Coef(x, e) == IF e \in DOMAIN x.t THEN x.t[e] ELSE CZero

Clean(f) == [e \in {e \in DOMAIN f : f[e] # CZero} |-> f[e]]

AllEven(f) == \A e \in DOMAIN f : f[e][1] % 2 = 0 /\ f[e][2] % 2 = 0

RECURSIVE Reduce(_, _)
Reduce(f, d) ==
  IF d > 0 /\ AllEven(f)
  THEN Reduce([e \in DOMAIN f |-> <<f[e][1] \div 2, f[e][2] \div 2>>], d - 1)
  ELSE [d |-> d, t |-> f]

Scalar(f, d) == Reduce(Clean(f), d)

\* A number of the input tensors: the integer n.
Const(n) == Scalar([e \in {0} |-> <<n, 0>>], 0)

RECURSIVE CSum(_, _, _, _)
CSum(x, y, e, todo) ==
  IF todo = {} THEN CZero
  ELSE LET a == CHOOSE a \in todo : TRUE
       IN CAdd(IF (e - a) \in DOMAIN y.t THEN CMul(x.t[a], y.t[e - a]) ELSE CZero,
               CSum(x, y, e, todo \ {a}))

\* x + y of line 60/61.
Plus(x, y) ==
  LET D == IF x.d > y.d THEN x.d ELSE y.d
  IN Scalar([e \in DOMAIN x.t \cup DOMAIN y.t |->
               CAdd(CScale(2 ^ (D - x.d), Coef(x, e)), CScale(2 ^ (D - y.d), Coef(y, e)))],
            D)

\* x * y of line 60/61.
Times(x, y) ==
  Scalar([e \in {a + b : a \in DOMAIN x.t, b \in DOMAIN y.t} |-> CSum(x, y, e, DOMAIN x.t)],
         x.d + y.d)

\* -x of line 56/58.
Minus(x) == [d |-> x.d, t |-> [e \in DOMAIN x.t |-> CScale(-1, x.t[e])]]

\* tf.sin of an angle of a units: (z^a - z^-a) / 2i.
Sin(a) ==
  IF a = 0 THEN Const(0)
  ELSE Scalar([e \in {a, -a} |-> IF e = a THEN <<0, -1>> ELSE <<0, 1>>], 1)

\* tf.cos of an angle of a units: (z^a + z^-a) / 2.
Cos(a) ==
  IF a = 0 THEN Const(1)
  ELSE Scalar([e \in {a, -a} |-> <<1, 0>>], 1)

(***************************************************************************)
(* Tensors: [kind, shape, at], at indexed from 0 on every axis.            *)
(***************************************************************************)
None == [kind |-> "none", shape |-> <<>>, at |-> <<>>]

\* What a TensorFlow op raises on operands whose shapes do not fit.
ShapeError == [kind |-> "error", shape |-> <<>>, at |-> <<>>]

Tensor(shape, at) == [kind |-> "tensor", shape |-> shape, at |-> at]

IsTensor(x) == x.kind = "tensor"

\* tf.range(n)
Range(n) == [i \in 0 .. n - 1 |-> i]

\* Mutation of PositionIds: the position ids start from 1.
PositionIdsFromOne(length) == [i \in 0 .. length - 1 |-> i + 1]

\* tf.range(length) of line 31: the position ids, from 0 (the FIXME of line 31).
PositionIds(length) == Range(length)

\* Mutation of Pow: the exponent -indices / steps, without the factor 2
\* (10000^(-i/steps) = 100^(-2i/steps)).
PowNoFactor(indices, steps) ==
  [i \in DOMAIN indices |-> 100 ^ (2 - (2 * indices[i]) \div steps)]

\* tf.pow(10000.0, -2 * indices / steps), in angle units (1/Base radian) per
\* position.  Exact while steps divides 2 * i, which holds for steps <= 2.
Pow(indices, steps) ==
  [i \in DOMAIN indices |-> Base ^ (1 - (2 * indices[i]) \div steps)]

\* tf.einsum('bl,d->bld', position_ids, indices)
Einsum(position_ids, indices) ==
  [p \in DOMAIN position_ids |-> [d \in DOMAIN indices |-> position_ids[p] * indices[d]]]

\* Mutation of Repeat: tf.tile, the whole half-width vector twice.
RepeatTiled(x, steps) ==
  [p \in DOMAIN x |-> [j \in 0 .. 2 * steps - 1 |-> x[p][j % steps]]]

\* tf.repeat(x, repeats=2, axis=-1): every element twice, in place.
Repeat(x, steps) ==
  [p \in DOMAIN x |-> [j \in 0 .. 2 * steps - 1 |-> x[p][j \div 2]]]

\* _build_trig_vector(length, key_dim): <<sin_vec, cos_vec>>.
BuildTrigVector(length, key_dim) ==
  LET position_ids == PositionIds(length)
      steps == key_dim \div 2
      indices == Pow(Range(steps), steps)
      vec == Einsum(position_ids, indices)
      sin_raw == [p \in DOMAIN vec |-> [d \in DOMAIN vec[p] |-> Sin(vec[p][d])]]
      cos_raw == [p \in DOMAIN vec |-> [d \in DOMAIN vec[p] |-> Cos(vec[p][d])]]
  IN <<Tensor(<<length, 2 * steps>>, Repeat(sin_raw, steps)),
       Tensor(<<length, 2 * steps>>, Repeat(cos_raw, steps))>>

\* x[..., start::2]
StridedSlice(x, start) ==
  LET width == (x.shape[2] - start + 1) \div 2
  IN Tensor(<<x.shape[1], width>>,
            [p \in 0 .. x.shape[1] - 1 |-> [j \in 0 .. width - 1 |-> x.at[p][start + 2 * j]]])

\* Mutation of Negative: the sign is not flipped.
NegativeDropped(x) == x

\* -x, element by element.
Negative(x) ==
  Tensor(x.shape, [p \in DOMAIN x.at |-> [j \in DOMAIN x.at[p] |-> Minus(x.at[p][j])]])

\* Mutation of Stack: axis=3, the new axis before the last one.
StackAxis3(a, b) ==
  IF a.shape # b.shape THEN ShapeError
  ELSE Tensor(<<a.shape[1], 2, a.shape[2]>>,
              [p \in DOMAIN a.at |-> [i \in 0 .. 1 |->
                 [j \in DOMAIN a.at[p] |-> IF i = 0 THEN a.at[p][j] ELSE b.at[p][j]]]])

\* tf.stack([a, b], axis=4): a new last axis of size 2; the shapes must agree.
Stack(a, b) ==
  IF a.shape # b.shape THEN ShapeError
  ELSE Tensor(<<a.shape[1], a.shape[2], 2>>,
              [p \in DOMAIN a.at |-> [j \in DOMAIN a.at[p] |->
                 [i \in 0 .. 1 |-> IF i = 0 THEN a.at[p][j] ELSE b.at[p][j]]]])

\* tf.reshape(x, shape) of a stacked tensor: row-major, the sizes must agree.
Reshape(x, shape) ==
  IF ~IsTensor(x) \/ x.shape[1] * x.shape[2] * x.shape[3] # shape[1] * shape[2]
  THEN ShapeError
  ELSE Tensor(shape,
              [p \in 0 .. shape[1] - 1 |-> [j \in 0 .. shape[2] - 1 |->
                 LET flat == p * shape[2] + j
                 IN x.at[flat \div (x.shape[2] * x.shape[3])]
                        [(flat \div x.shape[3]) % x.shape[2]]
                        [flat % x.shape[3]]]])

\* The size two broadcast sizes give, -1 when they do not broadcast.
BroadcastDim(a, b) == IF a = b THEN a ELSE IF a = 1 THEN b ELSE IF b = 1 THEN a ELSE -1

\* Whether two [length, width] tensors broadcast against each other.
Broadcasts(x, y) ==
  /\ IsTensor(x) /\ IsTensor(y)
  /\ BroadcastDim(x.shape[1], y.shape[1]) >= 0
  /\ BroadcastDim(x.shape[2], y.shape[2]) >= 0

BroadcastShape(x, y) ==
  <<BroadcastDim(x.shape[1], y.shape[1]), BroadcastDim(x.shape[2], y.shape[2])>>

\* Element (p, j) of x broadcast to a larger shape.
At(x, p, j) == x.at[IF x.shape[1] = 1 THEN 0 ELSE p][IF x.shape[2] = 1 THEN 0 ELSE j]

\* x * y of two tensors, element by element.
Mul(x, y) ==
  IF ~Broadcasts(x, y) THEN ShapeError
  ELSE Tensor(BroadcastShape(x, y),
              [p \in 0 .. BroadcastShape(x, y)[1] - 1 |->
                 [j \in 0 .. BroadcastShape(x, y)[2] - 1 |-> Times(At(x, p, j), At(y, p, j))]])

\* x + y of two tensors, element by element.
Add(x, y) ==
  IF ~Broadcasts(x, y) THEN ShapeError
  ELSE Tensor(BroadcastShape(x, y),
              [p \in 0 .. BroadcastShape(x, y)[1] - 1 |->
                 [j \in 0 .. BroadcastShape(x, y)[2] - 1 |-> Plus(At(x, p, j), At(y, p, j))]])

\* Mutation of Companion: the companion built coordinate by coordinate, a
\* missing partner taken as 0, so that slices of unequal widths never meet.
CompanionLenient(x) ==
  Tensor(x.shape,
         [p \in 0 .. x.shape[1] - 1 |-> [j \in 0 .. x.shape[2] - 1 |->
            IF j % 2 = 1 THEN x.at[p][j - 1]
            ELSE IF j + 1 < x.shape[2] THEN Minus(x.at[p][j + 1]) ELSE Const(0)]])

\* Mutation of Companion: the two slices stacked in the other order.
CompanionSwapped(x) ==
  Reshape(Stack(StridedSlice(x, 0), Negative(StridedSlice(x, 1))), x.shape)

\* tf.stack([-x[..., 1::2], x[..., ::2]], axis=4), reshaped to x's shape.
Companion(x) ==
  Reshape(Stack(Negative(StridedSlice(x, 1)), StridedSlice(x, 0)), x.shape)

\* x * cos_vec + x2 * sin_vec
Rotate(x, x2, sin_vec, cos_vec) == Add(Mul(x, cos_vec), Mul(x2, sin_vec))

\* roformer_recompute_qkv(q, k, v) on a layer of width key_dim, as one run
\* from line 49 to line 62: <<ret_q, ret_w, v>>, or the error it raises.
RoformerRecomputeQkv(q_in, k_in, v_in, width) ==
  LET q_vecs == BuildTrigVector(q_in.shape[1], width)
      k_vecs == BuildTrigVector(k_in.shape[1], width)
      q_comp == Companion(q_in)
      k_comp == Companion(k_in)
      rot_q == Rotate(q_in, q_comp, q_vecs[1], q_vecs[2])
      rot_k == Rotate(k_in, k_comp, k_vecs[1], k_vecs[2])
  IN IF IsTensor(q_comp) /\ IsTensor(k_comp) /\ IsTensor(rot_q) /\ IsTensor(rot_k)
     THEN <<rot_q, rot_k, v_in>>
     ELSE <<ShapeError, ShapeError, ShapeError>>

(***************************************************************************)
(* The inputs of a call.  The dense projections of lines 80-86 belong to   *)
(* the framework: a projected tensor is any tensor of its shape, here one  *)
(* whose rows are drawn from RowKinds.                                     *)
(***************************************************************************)
RowKinds == {"A", "B"}

\* Coordinate j of a row: A = 1, 2, 3, ...; B = 1, 0, 1, 0, ...
RowVal(kind, j) == IF kind = "A" THEN j + 1 ELSE 1 - (j % 2)

\* The [len, width] tensor whose row p is of kind kinds[p].
Rows(len, width, kinds) ==
  Tensor(<<len, width>>,
         [p \in 0 .. len - 1 |-> [j \in 0 .. width - 1 |-> Const(RowVal(kinds[p], j))]])

\* The value tensors: all entries distinct.
Values(len, width) ==
  Tensor(<<len, width>>,
         [p \in 0 .. len - 1 |-> [j \in 0 .. width - 1 |-> Const(10 * (p + 1) + j)]])

\* What call may be given, after its projections: any layer width, any query
\* length T and key/value length S (value_dim is left at its default, key_dim).
Inputs ==
  UNION { UNION { { [key_dim |-> kd, q |-> Rows(T, kd, qk), k |-> Rows(S, kd, kk), v |-> Values(S, kd)] :
                    qk \in [0 .. T - 1 -> RowKinds], kk \in [0 .. S - 1 -> RowKinds] } :
                  T \in 1 .. MaxLen, S \in 1 .. MaxLen } :
          kd \in 1 .. MaxKeyDim }

\* The inputs of the calls that run side by side.
ConcurrentInputs ==
  { [key_dim |-> 2, q |-> Rows(2, 2, [p \in 0 .. 1 |-> "A"]), k |-> Rows(2, 2, [p \in 0 .. 1 |-> "B"]), v |-> Values(2, 2)],
    [key_dim |-> 2, q |-> Rows(1, 2, [p \in 0 .. 0 |-> "B"]), k |-> Rows(1, 2, [p \in 0 .. 0 |-> "A"]), v |-> Values(1, 2)],
    [key_dim |-> 4, q |-> Rows(2, 4, [p \in 0 .. 1 |-> "A"]), k |-> Rows(2, 4, [p \in 0 .. 1 |-> "B"]), v |-> Values(2, 4)],
    [key_dim |-> 4, q |-> Rows(1, 4, [p \in 0 .. 0 |-> "B"]), k |-> Rows(2, 4, [p \in 0 .. 1 |-> "B"]), v |-> Values(2, 4)],
    [key_dim |-> 3, q |-> Rows(1, 3, [p \in 0 .. 0 |-> "A"]), k |-> Rows(1, 3, [p \in 0 .. 0 |-> "A"]), v |-> Values(1, 3)] }

(***************************************************************************)
(* State: one frame per call of RoformerAttention.call.                    *)
(***************************************************************************)
Calls == 1 .. NumCalls

VARIABLES
  pc,         \* where each call stands
  key_dim,    \* self._key_dim of the layer the call is made on
  q, k, v,    \* the projected tensors passed to roformer_recompute_qkv (line 88)
  q_len, k_len,
  q_sin_vec, q_cos_vec, k_sin_vec, k_cos_vec,
  q2, k2, ret_q, ret_w,
  query, key, value,   \* what roformer_recompute_qkv returned to call (line 88)
  attention   \* the arguments handed to self._compute_attention (line 90)

params == <<key_dim, q, k, v>>
shapes == <<q_len, k_len>>
q_trig == <<q_sin_vec, q_cos_vec>>
k_trig == <<k_sin_vec, k_cos_vec>>
returned == <<query, key, value>>
attention_vars ==
  <<pc, params, shapes, q_trig, k_trig, q2, k2, ret_q, ret_w, returned, attention>>

\* get_model of training/model_factory.py: its arguments, its locals and what
\* its caller gets.
VARIABLES
  gm_pc,
  name, num_classes, weight_decay, is_training,
  default_image_size, model_fn,
  gm_outcome

factory_vars ==
  <<gm_pc, name, num_classes, weight_decay, is_training, default_image_size,
    model_fn, gm_outcome>>

\* A maxFscore object of evaluation/max_f.py: its two lists, the local of
\* result(), and the pairs update_state added since result() last returned.
VARIABLES
  mf_pc,
  predictions, groundtruths,   \* self._predictions, self._groundtruths
  metric_result,
  added

metric_vars == <<mf_pc, predictions, groundtruths, metric_result, added>>

\* main of datasets/download_and_convert_cifar10.py: the flag, the file
\* system under the flag's directory, and what the run did to it so far.
VARIABLES
  cv_pc,
  dataset_dir,   \* FLAGS.dataset_dir
  exists,        \* whether the directory dataset_dir exists
  files,         \* the entries of the directory, each with its content
  effects,       \* the calls made that change the file system or fetch, in order
  batch,         \* the loop variable i of line 236
  cv_error       \* the exception main ended with, if any

convert_vars == <<cv_pc, dataset_dir, exists, files, effects, batch, cv_error>>

others == <<factory_vars, metric_vars, convert_vars>>

vars == <<attention_vars, others>>

\* No call of get_model is under way.
FactoryInit ==
  /\ gm_pc = "idle"
  /\ name = "" /\ num_classes = 0 /\ weight_decay = 0 /\ is_training = FALSE
  /\ default_image_size = None /\ model_fn = None
  /\ gm_outcome = None

\* __init__, lines 28-30: reset_states() leaves both lists empty.
MetricInit ==
  /\ mf_pc = "idle"
  /\ predictions = <<>> /\ groundtruths = <<>>
  /\ metric_result = None
  /\ added = <<>>

\* The script is not run.
ConvertOff ==
  /\ cv_pc = "off"
  /\ dataset_dir = "" /\ exists = FALSE /\ files = <<>>
  /\ effects = <<>> /\ batch = 0
  /\ cv_error = ""


AttentionInit ==
  /\ pc = [c \in Calls |-> "idle"]
  /\ key_dim = [c \in Calls |-> 0]
  /\ q = [c \in Calls |-> None] /\ k = [c \in Calls |-> None] /\ v = [c \in Calls |-> None]
  /\ q_len = [c \in Calls |-> 0] /\ k_len = [c \in Calls |-> 0]
  /\ q_sin_vec = [c \in Calls |-> None] /\ q_cos_vec = [c \in Calls |-> None]
  /\ k_sin_vec = [c \in Calls |-> None] /\ k_cos_vec = [c \in Calls |-> None]
  /\ q2 = [c \in Calls |-> None] /\ k2 = [c \in Calls |-> None]
  /\ ret_q = [c \in Calls |-> None] /\ ret_w = [c \in Calls |-> None]
  /\ query = [c \in Calls |-> None] /\ key = [c \in Calls |-> None]
  /\ value = [c \in Calls |-> None]
  /\ attention = [c \in Calls |-> None]

Init == AttentionInit /\ FactoryInit /\ MetricInit /\ ConvertOff

\* call, lines 72-88: key defaults to value (so key and value share a length),
\* the three projections, then the call of roformer_recompute_qkv.
Call(c, pool) ==
  /\ pc[c] = "idle"
  /\ \E in \in pool :
       /\ key_dim' = [key_dim EXCEPT ![c] = in.key_dim]
       /\ q' = [q EXCEPT ![c] = in.q]
       /\ k' = [k EXCEPT ![c] = in.k]
       /\ v' = [v EXCEPT ![c] = in.v]
  /\ pc' = [pc EXCEPT ![c] = "shapes"]
  /\ UNCHANGED <<shapes, q_trig, k_trig, q2, k2, ret_q, ret_w, returned, attention, others>>

\* lines 49-52
Shapes(c) ==
  /\ pc[c] = "shapes"
  /\ q_len' = [q_len EXCEPT ![c] = q[c].shape[1]]
  /\ k_len' = [k_len EXCEPT ![c] = k[c].shape[1]]
  /\ pc' = [pc EXCEPT ![c] = "q_trig"]
  /\ UNCHANGED <<params, q_trig, k_trig, q2, k2, ret_q, ret_w, returned, attention, others>>

\* The calls other than c that hold a query table / a key table of c's width.
QTableHolders(c) ==
  {o \in Calls \ {c} : IsTensor(q_sin_vec[o]) /\ key_dim[o] = key_dim[c]}

KTableHolders(c) ==
  {o \in Calls \ {c} : IsTensor(k_sin_vec[o]) /\ key_dim[o] = key_dim[c]}

\* Mutation of QTrig: a table kept by another call is reused whatever its length.
QTrigCached(c) ==
  IF QTableHolders(c) # {}
  THEN LET o == CHOOSE o \in QTableHolders(c) : TRUE IN <<q_sin_vec[o], q_cos_vec[o]>>
  ELSE BuildTrigVector(q_len[c], key_dim[c])

\* line 54: the table of the query.
QTrig(c) == BuildTrigVector(q_len[c], key_dim[c])

\* Mutation of KTrig: a table kept by another call is reused whatever its length.
KTrigCached(c) ==
  IF KTableHolders(c) # {}
  THEN LET o == CHOOSE o \in KTableHolders(c) : TRUE IN <<k_sin_vec[o], k_cos_vec[o]>>
  ELSE BuildTrigVector(k_len[c], key_dim[c])

\* Mutation of KTrig: the key's table built for the query's length.
KTrigOfQueryLength(c) == BuildTrigVector(q_len[c], key_dim[c])

\* line 55: the table of the key.
KTrig(c) == BuildTrigVector(k_len[c], key_dim[c])

BuildQTrig(c) ==
  /\ pc[c] = "q_trig"
  /\ q_sin_vec' = [q_sin_vec EXCEPT ![c] = QTrig(c)[1]]
  /\ q_cos_vec' = [q_cos_vec EXCEPT ![c] = QTrig(c)[2]]
  /\ pc' = [pc EXCEPT ![c] = "k_trig"]
  /\ UNCHANGED <<params, shapes, k_trig, q2, k2, ret_q, ret_w, returned, attention, others>>

BuildKTrig(c) ==
  /\ pc[c] = "k_trig"
  /\ k_sin_vec' = [k_sin_vec EXCEPT ![c] = KTrig(c)[1]]
  /\ k_cos_vec' = [k_cos_vec EXCEPT ![c] = KTrig(c)[2]]
  /\ pc' = [pc EXCEPT ![c] = "q2"]
  /\ UNCHANGED <<params, shapes, q_trig, q2, k2, ret_q, ret_w, returned, attention, others>>

\* Where a step that computed x goes on: to next, or out by the exception.
After(x, next) == IF IsTensor(x) THEN next ELSE "raised"

\* lines 56-57
CompanionQ(c) ==
  /\ pc[c] = "q2"
  /\ q2' = [q2 EXCEPT ![c] = Companion(q[c])]
  /\ pc' = [pc EXCEPT ![c] = After(q2'[c], "k2")]
  /\ UNCHANGED <<params, shapes, q_trig, k_trig, k2, ret_q, ret_w, returned, attention, others>>

\* lines 58-59
CompanionK(c) ==
  /\ pc[c] = "k2"
  /\ k2' = [k2 EXCEPT ![c] = Companion(k[c])]
  /\ pc' = [pc EXCEPT ![c] = After(k2'[c], "ret_q")]
  /\ UNCHANGED <<params, shapes, q_trig, k_trig, q2, ret_q, ret_w, returned, attention, others>>

\* line 60
RotateQ(c) ==
  /\ pc[c] = "ret_q"
  /\ ret_q' = [ret_q EXCEPT ![c] = Rotate(q[c], q2[c], q_sin_vec[c], q_cos_vec[c])]
  /\ pc' = [pc EXCEPT ![c] = After(ret_q'[c], "ret_w")]
  /\ UNCHANGED <<params, shapes, q_trig, k_trig, q2, k2, ret_w, returned, attention, others>>

\* line 61
RotateK(c) ==
  /\ pc[c] = "ret_w"
  /\ ret_w' = [ret_w EXCEPT ![c] = Rotate(k[c], k2[c], k_sin_vec[c], k_cos_vec[c])]
  /\ pc' = [pc EXCEPT ![c] = After(ret_w'[c], "return")]
  /\ UNCHANGED <<params, shapes, q_trig, k_trig, q2, k2, ret_q, returned, attention, others>>

\* Mutation of Returned: the value rotated like the key.
ReturnedRotatedValue(c) ==
  <<ret_q[c], ret_w[c], Rotate(v[c], Companion(v[c]), k_sin_vec[c], k_cos_vec[c])>>

\* line 62: what roformer_recompute_qkv returns.
Returned(c) == <<ret_q[c], ret_w[c], v[c]>>

\* line 62, and the assignment of line 88
ReturnQKV(c) ==
  /\ pc[c] = "return"
  /\ query' = [query EXCEPT ![c] = Returned(c)[1]]
  /\ key' = [key EXCEPT ![c] = Returned(c)[2]]
  /\ value' = [value EXCEPT ![c] = Returned(c)[3]]
  /\ pc' = [pc EXCEPT ![c] = "attend"]
  /\ UNCHANGED <<params, shapes, q_trig, k_trig, q2, k2, ret_q, ret_w, attention, others>>

\* lines 90-92: query, key and value go to the framework's attention scorer.
ComputeAttention(c) ==
  /\ pc[c] = "attend"
  /\ attention' = [attention EXCEPT ![c] = <<query[c], key[c], value[c]>>]
  /\ pc' = [pc EXCEPT ![c] = "output"]
  /\ UNCHANGED <<params, shapes, q_trig, k_trig, q2, k2, ret_q, ret_w, returned, others>>

\* The frame is gone once the call is over.
Leave(c) ==
  /\ pc' = [pc EXCEPT ![c] = "idle"]
  /\ key_dim' = [key_dim EXCEPT ![c] = 0]
  /\ q' = [q EXCEPT ![c] = None] /\ k' = [k EXCEPT ![c] = None] /\ v' = [v EXCEPT ![c] = None]
  /\ q_len' = [q_len EXCEPT ![c] = 0] /\ k_len' = [k_len EXCEPT ![c] = 0]
  /\ q_sin_vec' = [q_sin_vec EXCEPT ![c] = None] /\ q_cos_vec' = [q_cos_vec EXCEPT ![c] = None]
  /\ k_sin_vec' = [k_sin_vec EXCEPT ![c] = None] /\ k_cos_vec' = [k_cos_vec EXCEPT ![c] = None]
  /\ q2' = [q2 EXCEPT ![c] = None] /\ k2' = [k2 EXCEPT ![c] = None]
  /\ ret_q' = [ret_q EXCEPT ![c] = None] /\ ret_w' = [ret_w EXCEPT ![c] = None]
  /\ query' = [query EXCEPT ![c] = None] /\ key' = [key EXCEPT ![c] = None]
  /\ value' = [value EXCEPT ![c] = None]
  /\ attention' = [attention EXCEPT ![c] = None]
  /\ UNCHANGED others

\* lines 94-96: call returns.
Return(c) ==
  /\ pc[c] = "output"
  /\ Leave(c)

\* An op of lines 56-61 raised: nothing catches it, call ends with the exception.
Raise(c) ==
  /\ pc[c] = "raised"
  /\ Leave(c)

Step(c, pool) ==
  \/ Call(c, pool)
  \/ Shapes(c)
  \/ BuildQTrig(c)
  \/ BuildKTrig(c)
  \/ CompanionQ(c)
  \/ CompanionK(c)
  \/ RotateQ(c)
  \/ RotateK(c)
  \/ ReturnQKV(c)
  \/ ComputeAttention(c)
  \/ Return(c)
  \/ Raise(c)

\* One caller: a call at a time, with any inputs.
Next == Step(1, Inputs)

Spec == Init /\ [][Next]_vars

\* Several callers: calls side by side, one frame each.
NextConcurrent == \E c \in Calls : Step(c, ConcurrentInputs)

SpecConcurrent == Init /\ [][NextConcurrent]_vars

(***************************************************************************)
(* get_model of research/slim/training/model_factory.py.  The networks of  *)
(* the nets package are named, never evaluated: a function of the package  *)
(* is the pair of its module and its name, and the attribute read from one *)
(* is kept as the reference to its owner.                                  *)
(***************************************************************************)
\* The names the chain of lines 54-151 compares name with.
ModelNames ==
  {"cifarnet", "inception_v1", "inception_v2", "inception_v3", "lenet",
   "resnet_v1_50", "resnet_v1_101", "resnet_v1_152", "vgg_a", "vgg_16", "vgg_19"}

Net(module, fn) == [module |-> module, fn |-> fn]

\* The function whose default_image_size the branch of n reads
\* (lines 55, 63, 72, 81, 90, 99, 109, 119, 129, 137, 145).
SizeOwner(n) ==
  CASE n = "cifarnet" -> Net("cifarnet", "cifarnet")
    [] n = "inception_v1" -> Net("inception", "inception_v1")
    [] n = "inception_v2" -> Net("inception", "inception_v2")
    [] n = "inception_v3" -> Net("inception", "inception_v3")
    [] n = "lenet" -> Net("lenet", "lenet")
    [] n = "resnet_v1_50" -> Net("resnet_v1", "resnet_v1")
    [] n = "resnet_v1_101" -> Net("resnet_v1", "resnet_v1")
    [] n = "resnet_v1_152" -> Net("resnet_v1", "resnet_v1")
    [] n = "vgg_a" -> Net("vgg", "vgg_a")
    [] n = "vgg_16" -> Net("vgg", "vgg_16")
    [] n = "vgg_19" -> Net("vgg", "vgg_19")

\* The network the func of the branch of n applies
\* (lines 59, 67, 76, 85, 94, 103, 113, 123, 132, 140, 148).
Network(n) ==
  CASE n = "cifarnet" -> Net("cifarnet", "cifarnet")
    [] n = "inception_v1" -> Net("inception", "inception_v1")
    [] n = "inception_v2" -> Net("inception", "inception_v2")
    [] n = "inception_v3" -> Net("inception", "inception_v3")
    [] n = "lenet" -> Net("lenet", "lenet")
    [] n = "resnet_v1_50" -> Net("resnet_v1", "resnet_v1_50")
    [] n = "resnet_v1_101" -> Net("resnet_v1", "resnet_v1_101")
    [] n = "resnet_v1_152" -> Net("resnet_v1", "resnet_v1_152")
    [] n = "vgg_a" -> Net("vgg", "vgg_a")
    [] n = "vgg_16" -> Net("vgg", "vgg_16")
    [] n = "vgg_19" -> Net("vgg", "vgg_19")

\* The arg scope the func of the branch of n opens
\* (lines 57, 65, 74, 83, 92, 101, 111, 121, 131, 139, 147).
ArgScope(n) ==
  CASE n = "cifarnet" -> Net("cifarnet", "cifarnet_arg_scope")
    [] n = "inception_v1" -> Net("inception", "inception_v1_arg_scope")
    [] n = "inception_v2" -> Net("inception", "inception_v2_arg_scope")
    [] n = "inception_v3" -> Net("inception", "inception_v3_arg_scope")
    [] n = "lenet" -> Net("lenet", "lenet_arg_scope")
    [] n = "resnet_v1_50" -> Net("resnet_v1", "resnet_arg_scope")
    [] n = "resnet_v1_101" -> Net("resnet_v1", "resnet_arg_scope")
    [] n = "resnet_v1_152" -> Net("resnet_v1", "resnet_arg_scope")
    [] n = "vgg_a" -> Net("vgg", "vgg_arg_scope")
    [] n = "vgg_16" -> Net("vgg", "vgg_arg_scope")
    [] n = "vgg_19" -> Net("vgg", "vgg_arg_scope")

\* The value of f.default_image_size, f a function of the nets package.
DefaultImageSize(f) == [kind |-> "attr", attr |-> "default_image_size", of |-> f]

\* The closure func of a branch: the network, its arg scope and the arguments
\* of get_model it keeps; a new function has no default_image_size.
Func(n, classes, decay, training) ==
  [kind |-> "function", net |-> Network(n), arg_scope |-> ArgScope(n),
   num_classes |-> classes, weight_decay |-> decay, is_training |-> training,
   default_image_size |-> None]

\* Mutation of Attached: the function left as it was.
AttachedNothing(fn, size) == fn

\* line 155
Attached(fn, size) == [fn EXCEPT !.default_image_size = size]

\* The arguments get_model is called with: every name of the chain, names of
\* the modules imported at lines 24-32 that the chain does not know, a name
\* in another case, and the empty name.
Names == ModelNames \cup {"alexnet_v2", "overfeat", "resnet_v2_50", "CifarNet", ""}

NumClasses == {10, 1001}

\* weight_decay, in units of 0.00001; 0 is the default of line 37.
WeightDecays == {0, 4}

\* line 37
GetModel ==
  /\ gm_pc = "idle"
  /\ \E n \in Names, classes \in NumClasses, decay \in WeightDecays, training \in BOOLEAN :
       /\ name' = n
       /\ num_classes' = classes
       /\ weight_decay' = decay
       /\ is_training' = training
  /\ gm_pc' = "select"
  /\ UNCHANGED <<default_image_size, model_fn, gm_outcome>>
  /\ UNCHANGED <<attention_vars, metric_vars, convert_vars>>

\* lines 54-151: the branch of a name the chain knows.
SelectModel ==
  /\ gm_pc = "select"
  /\ name \in ModelNames
  /\ default_image_size' = DefaultImageSize(SizeOwner(name))
  /\ model_fn' = Func(name, num_classes, weight_decay, is_training)
  /\ gm_pc' = "attach"
  /\ UNCHANGED <<name, num_classes, weight_decay, is_training, gm_outcome>>
  /\ UNCHANGED <<attention_vars, metric_vars, convert_vars>>

\* lines 152-153: the else of the chain.
RaiseValueError ==
  /\ gm_pc = "select"
  /\ name \notin ModelNames
  /\ gm_outcome' = [kind |-> "raised", error |-> "ValueError", value |-> None]
  /\ gm_pc' = "done"
  /\ UNCHANGED <<name, num_classes, weight_decay, is_training, default_image_size, model_fn>>
  /\ UNCHANGED <<attention_vars, metric_vars, convert_vars>>

\* line 155
AttachSize ==
  /\ gm_pc = "attach"
  /\ model_fn' = Attached(model_fn, default_image_size)
  /\ gm_pc' = "return"
  /\ UNCHANGED <<name, num_classes, weight_decay, is_training, default_image_size, gm_outcome>>
  /\ UNCHANGED <<attention_vars, metric_vars, convert_vars>>

\* line 157
ReturnModelFn ==
  /\ gm_pc = "return"
  /\ gm_outcome' = [kind |-> "returned", error |-> "", value |-> model_fn]
  /\ gm_pc' = "done"
  /\ UNCHANGED <<name, num_classes, weight_decay, is_training, default_image_size, model_fn>>
  /\ UNCHANGED <<attention_vars, metric_vars, convert_vars>>

\* The caller has what get_model gave it: the frame is gone.
GetModelOver ==
  /\ gm_pc = "done"
  /\ gm_pc' = "idle"
  /\ name' = "" /\ num_classes' = 0 /\ weight_decay' = 0 /\ is_training' = FALSE
  /\ default_image_size' = None /\ model_fn' = None
  /\ gm_outcome' = None
  /\ UNCHANGED <<attention_vars, metric_vars, convert_vars>>

NextFactory ==
  \/ GetModel
  \/ SelectModel
  \/ RaiseValueError
  \/ AttachSize
  \/ ReturnModelFn
  \/ GetModelOver

SpecFactory == Init /\ [][NextFactory]_vars

(***************************************************************************)
(* maxFscore of official/vision/beta/projects/basnet/evaluation/max_f.py.  *)
(* A mask is the sequence of its pixels, each a natural number.  Numbers   *)
(* are exact: a quotient x/(y + 1e-8) of the code is x/y, and 0 where x is *)
(* 0, which is what the guard 1e-8 is there for; a pixel scaled to 0..255  *)
(* keeps its guard, since the bin it falls in depends on it.               *)
(***************************************************************************)
RECURSIVE Gcd(_, _)
Gcd(a, b) == IF b = 0 THEN a ELSE Gcd(b, a % b)

\* The fraction n/d, d > 0, in lowest terms.
Rat(n, d) == LET g == Gcd(n, d) IN [n |-> n \div g, d |-> d \div g]

RAdd(x, y) == Rat(x.n * y.d + y.n * x.d, x.d * y.d)

RMul(x, y) == Rat(x.n * y.n, x.d * y.d)

RLess(x, y) == x.n * y.d < y.n * x.d

\* x/(y + 1e-8), for x >= 0 and y >= 0 with y > 0 wherever x > 0.
Over(x, y) == IF x.n = 0 THEN Rat(0, 1) ELSE Rat(x.n * y.d, x.d * y.n)

\* line 56: mybins = np.arange(0, 256); the bins are the intervals between.
mybins == [i \in 0 .. 255 |-> i]

Bins == 0 .. 254

\* line 57
beta == Rat(3, 10)

RECURSIVE AMax(_, _)
AMax(mask, upto) ==
  IF upto = 0 THEN 0
  ELSE LET m == AMax(mask, upto - 1) IN IF mask[upto] > m THEN mask[upto] ELSE m

\* lines 78-79, then the * 255.0 of lines 64-65: the pixel num/(den + 1e-8).
MaskNormalize(mask) ==
  [p \in DOMAIN mask |-> [num |-> 255 * mask[p], den |-> AMax(mask, Len(mask))]]

\* x > 128, x a scaled pixel: 128 * 1e-8 is less than 1.
Above128(x) == x.num > 128 * x.den

\* The bin of np.histogram a scaled pixel falls in: [b, b + 1), the last bin
\* closed.  A pixel other than 0 lies just below num/den.
BinOf(x) == IF x.num = 0 THEN 0 ELSE (x.num - 1) \div x.den

\* lines 89-90
Histogram(xs) ==
  [b \in Bins |-> Cardinality({i \in DOMAIN xs : BinOf(xs[i]) = mybins[b]})]

\* lines 92-93
Flipud(h) == [t \in Bins |-> h[254 - t]]

\* The running sums of h over lo .. hi, on top of carry, by halves.
RECURSIVE Running(_, _, _, _)
Running(h, lo, hi, carry) ==
  IF lo = hi THEN <<carry + h[lo]>>
  ELSE LET mid == (lo + hi) \div 2
           left == Running(h, lo, mid, carry)
       IN  left \o Running(h, mid + 1, hi, left[Len(left)])

\* lines 95-96: the sums as a sequence, the sum up to bin t at place t + 1.
Cumsum(h) == Running(h, 0, 254, 0)

\* The pixels of pred where keep holds of the pixel of true (lines 83-87).
Select(xs, keep) ==
  LET RECURSIVE Sel(_)
      Sel(upto) == IF upto = 0 THEN <<>>
                   ELSE IF keep[upto] THEN Append(Sel(upto - 1), xs[upto])
                   ELSE Sel(upto - 1)
  IN  Sel(Len(xs))

\* _compute_pre_rec, lines 81-107
ComputePreRec(true, pred) ==
  LET fore == [p \in DOMAIN true |-> Above128(true[p])]
      back == [p \in DOMAIN true |-> ~Above128(true[p])]
      gt_num == Len(Select(true, fore))
      pp == Select(pred, fore)
      nn == Select(pred, back)
      pp_hist_flip_cum == Cumsum(Flipud(Histogram(pp)))
      nn_hist_flip_cum == Cumsum(Flipud(Histogram(nn)))
  IN  [precision |->
         [t \in Bins |-> Over(Rat(pp_hist_flip_cum[t + 1], 1),
                              Rat(pp_hist_flip_cum[t + 1] + nn_hist_flip_cum[t + 1], 1))],
       recall |->
         [t \in Bins |-> Over(Rat(pp_hist_flip_cum[t + 1], 1), Rat(gt_num, 1))]]

Min(a, b) == IF a < b THEN a ELSE b

\* The sum over axis 0 of lines 70-71, at column t.
RECURSIVE SumRows(_, _, _)
SumRows(rows, upto, t) ==
  IF upto = 0 THEN Rat(0, 1) ELSE RAdd(SumRows(rows, upto - 1, t), rows[upto][t])

\* lines 58-68: a row of precisions and recalls for each stored groundtruth,
\* filled for the pairs of the zip and left zero otherwise.
RECURSIVE PreRecRows(_, _, _)
PreRecRows(gts, preds, upto) ==
  IF upto = 0 THEN <<>>
  ELSE Append(PreRecRows(gts, preds, upto - 1),
              IF upto <= Min(Len(gts), Len(preds))
              THEN ComputePreRec(MaskNormalize(gts[upto]), MaskNormalize(preds[upto]))
              ELSE [precision |-> [t \in Bins |-> Rat(0, 1)],
                    recall |-> [t \in Bins |-> Rat(0, 1)]])

\* np.max over the entries lo .. hi of f, by halves.
RECURSIVE MaxOver(_, _, _)
MaxOver(f, lo, hi) ==
  IF lo = hi THEN f[lo]
  ELSE LET mid == (lo + hi) \div 2
           l == MaxOver(f, lo, mid)
           r == MaxOver(f, mid + 1, hi)
       IN  IF RLess(l, r) THEN r ELSE l

\* evaluate, lines 48-76
Evaluate(gts, preds) ==
  LET rows == PreRecRows(gts, preds, Len(gts))
      pre_rows == [i \in 1 .. Len(gts) |-> rows[i].precision]
      rec_rows == [i \in 1 .. Len(gts) |-> rows[i].recall]
      count == Rat(Len(gts), 1)
      precisions == [t \in Bins |-> Over(SumRows(pre_rows, Len(gts), t), count)]
      recalls == [t \in Bins |-> Over(SumRows(rec_rows, Len(gts), t), count)]
      f == [t \in Bins |->
              Over(RMul(RAdd(Rat(1, 1), beta), RMul(precisions[t], recalls[t])),
                   RAdd(RMul(beta, precisions[t]), recalls[t]))]
  IN  MaxOver(f, 0, 254)

\* zip of lines 128 and 61: the pairs up to the shorter length.
Zip(xs, ys) == [i \in 1 .. Min(Len(xs), Len(ys)) |-> <<xs[i], ys[i]>>]

\* Mutation of ResetStates: the lists kept as they are.
ResetStatesKept == [predictions |-> predictions, groundtruths |-> groundtruths]

\* reset_states, lines 36-39
ResetStates == [predictions |-> <<>>, groundtruths |-> <<>>]

\* The masks update_state is given, their pixels in units of one half: batches
\* of one mask and more, the two batches of a call not always of one size.
GroundtruthMasks == {<<0, 2>>, <<2, 2>>}

PredictionMasks == {<<2, 1>>, <<0, 2>>}

Batches(masks) == UNION {[1 .. n -> masks] : n \in 1 .. MaxBatch}

\* update_state, lines 117-130
UpdateState ==
  /\ mf_pc = "idle"
  /\ \E gb \in Batches(GroundtruthMasks), pb \in Batches(PredictionMasks) :
       LET pairs == Zip(gb, pb)
       IN  /\ Len(added) + Len(pairs) <= MaxMasks
           /\ groundtruths' = groundtruths \o [i \in DOMAIN pairs |-> pairs[i][1]]
           /\ predictions' = predictions \o [i \in DOMAIN pairs |-> pairs[i][2]]
           /\ added' = added \o pairs
  /\ UNCHANGED <<mf_pc, metric_result>>
  /\ UNCHANGED <<attention_vars, factory_vars, convert_vars>>

\* reset_states called from outside, lines 36-39
ResetStatesCall ==
  /\ mf_pc = "idle"
  /\ predictions' = ResetStates.predictions
  /\ groundtruths' = ResetStates.groundtruths
  /\ UNCHANGED <<mf_pc, metric_result, added>>
  /\ UNCHANGED <<attention_vars, factory_vars, convert_vars>>

\* result, line 43
ResultEvaluate ==
  /\ mf_pc = "idle"
  /\ metric_result' = Evaluate(groundtruths, predictions)
  /\ mf_pc' = "reset"
  /\ UNCHANGED <<predictions, groundtruths, added>>
  /\ UNCHANGED <<attention_vars, factory_vars, convert_vars>>

\* result, line 45
ResultReset ==
  /\ mf_pc = "reset"
  /\ predictions' = ResetStates.predictions
  /\ groundtruths' = ResetStates.groundtruths
  /\ mf_pc' = "return"
  /\ UNCHANGED <<metric_result, added>>
  /\ UNCHANGED <<attention_vars, factory_vars, convert_vars>>

\* result, line 46
ResultReturn ==
  /\ mf_pc = "return"
  /\ mf_pc' = "returned"
  /\ added' = <<>>
  /\ UNCHANGED <<predictions, groundtruths, metric_result>>
  /\ UNCHANGED <<attention_vars, factory_vars, convert_vars>>

\* The caller has the value: the frame of result is gone.
ResultOver ==
  /\ mf_pc = "returned"
  /\ mf_pc' = "idle"
  /\ metric_result' = None
  /\ UNCHANGED <<predictions, groundtruths, added>>
  /\ UNCHANGED <<attention_vars, factory_vars, convert_vars>>

NextMetric ==
  \/ UpdateState
  \/ ResetStatesCall
  \/ ResultEvaluate
  \/ ResultReset
  \/ ResultReturn
  \/ ResultOver

SpecMetric == Init /\ [][NextMetric]_vars

(***************************************************************************)
(* main of research/slim/datasets/download_and_convert_cifar10.py.  The    *)
(* file system is the directory FLAGS.dataset_dir names: whether it exists *)
(* and, for each entry the script touches, whether the entry is there and  *)
(* what it holds.  A TFRecord file holds the names of the batch files      *)
(* whose images were written to it, in order.                              *)
(***************************************************************************)
\* line 54
_NUM_TRAIN_FILES == 5

\* lines 170-179, the entry of dataset_dir the path names.
GetOutputFilename(split_name) == "cifar10_" \o split_name \o ".tfrecord"

\* lines 188 and 210: _DATA_URL.split('/')[-1]
Tarball == "cifar-10-python.tar.gz"

\* lines 212, 237 and 245
BatchDir == "cifar-10-batches-py"

\* line 111
LabelsFile == "labels.txt"

Entries == {GetOutputFilename("train"), GetOutputFilename("test"), Tarball, BatchDir, LabelsFile}

Absent == [present |-> FALSE, content |-> <<>>]

File(content) == [present |-> TRUE, content |-> content]

\* lines 237-238 and 246: the batch files of the archive.
DataBatch(i) == "data_batch_" \o ToString(i)

TestBatch == "test_batch"

\* What extractall of line 200 leaves in the directory.
Archive ==
  File([i \in 1 .. _NUM_TRAIN_FILES + 1 |->
          IF i <= _NUM_TRAIN_FILES THEN DataBatch(i) ELSE TestBatch])

\* What an entry holds that was there before the script ran: the output of an
\* earlier run, the archive of an earlier download, the batches of an earlier
\* extraction.
Earlier(entry) ==
  IF entry = BatchDir THEN Archive
  ELSE IF entry = Tarball THEN File(<<"archive">>)
  ELSE File(<<"earlier run">>)

\* The values of --dataset_dir: not given (the default None of line 44), given
\* empty, and the name of a directory.
DatasetDirs ==
  {[given |-> FALSE, path |-> ""], [given |-> TRUE, path |-> ""],
   [given |-> TRUE, path |-> "cifar10"]}

\* Mutation of NotSupplied: only a flag that was not given counts.
NotSuppliedNone(dir) == ~dir.given

\* line 218: not FLAGS.dataset_dir
NotSupplied(dir) == ~dir.given \/ dir.path = ""

\* Mutation of BothExist: the labels file asked for as well.
BothExistWithLabels(fs) ==
  /\ fs[GetOutputFilename("train")].present
  /\ fs[GetOutputFilename("test")].present
  /\ fs[LabelsFile].present

\* lines 224-227
BothExist(fs) ==
  /\ fs[GetOutputFilename("train")].present
  /\ fs[GetOutputFilename("test")].present

\* The script is started: any flag, and under a directory's name any directory,
\* there or not, with any of the entries in it.
ConvertStart ==
  /\ cv_pc = "start"
  /\ dataset_dir \in DatasetDirs
  /\ exists \in BOOLEAN
  /\ \E there \in SUBSET Entries :
       files = [e \in Entries |-> IF e \in there THEN Earlier(e) ELSE Absent]
  /\ (dataset_dir.path = "" \/ ~exists) => files = [e \in Entries |-> Absent]
  /\ dataset_dir.path = "" => ~exists
  /\ effects = <<>> /\ batch = 0
  /\ cv_error = ""

\* lines 218-219
CheckFlag ==
  /\ cv_pc = "start"
  /\ IF NotSupplied(dataset_dir)
     THEN cv_pc' = "raised" /\ cv_error' = "ValueError"
     ELSE cv_pc' = "makedirs" /\ cv_error' = cv_error
  /\ UNCHANGED <<dataset_dir, exists, files, effects, batch>>
  /\ UNCHANGED <<attention_vars, factory_vars, metric_vars>>

\* lines 221-222
MakeDirs ==
  /\ cv_pc = "makedirs"
  /\ IF ~exists
     THEN exists' = TRUE /\ effects' = Append(effects, "MakeDirs")
     ELSE UNCHANGED <<exists, effects>>
  /\ cv_pc' = "outputs"
  /\ UNCHANGED <<dataset_dir, files, batch, cv_error>>
  /\ UNCHANGED <<attention_vars, factory_vars, metric_vars>>

\* lines 224-229
CheckOutputs ==
  /\ cv_pc = "outputs"
  /\ cv_pc' = IF BothExist(files) THEN "exit" ELSE "download"
  /\ UNCHANGED <<dataset_dir, exists, files, effects, batch, cv_error>>
  /\ UNCHANGED <<attention_vars, factory_vars, metric_vars>>

\* _download_and_uncompress_dataset, lines 188-191, the archive being there:
\* the body of the if is skipped and the function returns.
DownloadSkipped ==
  /\ cv_pc = "download"
  /\ files[Tarball].present
  /\ cv_pc' = "train"
  /\ UNCHANGED <<dataset_dir, exists, files, effects, batch, cv_error>>
  /\ UNCHANGED <<attention_vars, factory_vars, metric_vars>>

\* lines 191-198: the archive is fetched.
Retrieve ==
  /\ cv_pc = "download"
  /\ ~files[Tarball].present
  /\ files' = [files EXCEPT ![Tarball] = File(<<"archive">>)]
  /\ effects' = Append(effects, "urlretrieve")
  /\ cv_pc' = "extract"
  /\ UNCHANGED <<dataset_dir, exists, batch, cv_error>>
  /\ UNCHANGED <<attention_vars, factory_vars, metric_vars>>

\* line 196: the fetch fails, with part of the archive written or nothing.
RetrieveFails ==
  /\ cv_pc = "download"
  /\ ~files[Tarball].present
  /\ \E left \in {Absent, File(<<"part of the archive">>)} :
       files' = [files EXCEPT ![Tarball] = left]
  /\ effects' = Append(effects, "urlretrieve")
  /\ cv_pc' = "raised" /\ cv_error' = "IOError"
  /\ UNCHANGED <<dataset_dir, exists, batch>>
  /\ UNCHANGED <<attention_vars, factory_vars, metric_vars>>

\* line 200, inside the if of line 191; the function returns.
Extract ==
  /\ cv_pc = "extract"
  /\ files' = [files EXCEPT ![BatchDir] = Archive]
  /\ effects' = Append(effects, "extractall")
  /\ cv_pc' = "train"
  /\ UNCHANGED <<dataset_dir, exists, batch, cv_error>>
  /\ UNCHANGED <<attention_vars, factory_vars, metric_vars>>

\* lines 234-235: the writer creates the file, or empties it.
OpenTrain ==
  /\ cv_pc = "train"
  /\ files' = [files EXCEPT ![GetOutputFilename("train")] = File(<<>>)]
  /\ effects' = Append(effects, "TFRecordWriter")
  /\ batch' = 0
  /\ cv_pc' = "train_loop"
  /\ UNCHANGED <<dataset_dir, exists, cv_error>>
  /\ UNCHANGED <<attention_vars, factory_vars, metric_vars>>

\* Whether tf.gfile.Open of line 136 finds the batch file.
Readable(fs, filename) ==
  /\ fs[BatchDir].present
  /\ \E i \in DOMAIN fs[BatchDir].content : fs[BatchDir].content[i] = filename

\* lines 236-240, one turn of the loop: _add_to_tfrecord (lines 126-167) reads
\* the batch file and writes its images, or fails to open it.
AddTrainBatch ==
  /\ cv_pc = "train_loop"
  /\ batch < _NUM_TRAIN_FILES
  /\ LET filename == DataBatch(batch + 1)
         out == GetOutputFilename("train")
     IN  IF Readable(files, filename)
         THEN /\ files' = [files EXCEPT ![out] = File(Append(files[out].content, filename))]
              /\ effects' = Append(effects, "write")
              /\ batch' = batch + 1
              /\ UNCHANGED <<cv_pc, cv_error>>
         ELSE /\ cv_pc' = "raised" /\ cv_error' = "NotFoundError"
              /\ UNCHANGED <<files, effects, batch>>
  /\ UNCHANGED <<dataset_dir, exists>>
  /\ UNCHANGED <<attention_vars, factory_vars, metric_vars>>

\* line 236: the range is used up, the with of line 234 closes the writer.
CloseTrain ==
  /\ cv_pc = "train_loop"
  /\ batch = _NUM_TRAIN_FILES
  /\ cv_pc' = "test"
  /\ UNCHANGED <<dataset_dir, exists, files, effects, batch, cv_error>>
  /\ UNCHANGED <<attention_vars, factory_vars, metric_vars>>

\* lines 243-247
WriteTest ==
  /\ cv_pc = "test"
  /\ LET out == GetOutputFilename("test")
     IN  IF Readable(files, TestBatch)
         THEN /\ files' = [files EXCEPT ![out] = File(<<TestBatch>>)]
              /\ effects' = effects \o <<"TFRecordWriter", "write">>
              /\ cv_pc' = "labels" /\ cv_error' = cv_error
         ELSE /\ files' = [files EXCEPT ![out] = File(<<>>)]
              /\ effects' = Append(effects, "TFRecordWriter")
              /\ cv_pc' = "raised" /\ cv_error' = "NotFoundError"
  /\ UNCHANGED <<dataset_dir, exists, batch>>
  /\ UNCHANGED <<attention_vars, factory_vars, metric_vars>>

\* lines 250-251, _write_label_file (lines 110-123)
WriteLabelFile ==
  /\ cv_pc = "labels"
  /\ files' = [files EXCEPT ![LabelsFile] = File(<<"class names">>)]
  /\ effects' = Append(effects, "Open")
  /\ cv_pc' = "cleanup"
  /\ UNCHANGED <<dataset_dir, exists, batch, cv_error>>
  /\ UNCHANGED <<attention_vars, factory_vars, metric_vars>>

\* lines 253-254, _clean_up_temporary_files (lines 203-214)
CleanUpTemporaryFiles ==
  /\ cv_pc = "cleanup"
  /\ IF files[Tarball].present /\ files[BatchDir].present
     THEN /\ files' = [files EXCEPT ![Tarball] = Absent, ![BatchDir] = Absent]
          /\ effects' = effects \o <<"Remove", "DeleteRecursively">>
          /\ cv_pc' = "finished" /\ cv_error' = cv_error
     ELSE /\ cv_pc' = "raised" /\ cv_error' = "NotFoundError"
          /\ UNCHANGED <<files, effects>>
  /\ UNCHANGED <<dataset_dir, exists, batch>>
  /\ UNCHANGED <<attention_vars, factory_vars, metric_vars>>

NextConvert ==
  \/ CheckFlag
  \/ MakeDirs
  \/ CheckOutputs
  \/ DownloadSkipped
  \/ Retrieve
  \/ RetrieveFails
  \/ Extract
  \/ OpenTrain
  \/ AddTrainBatch
  \/ CloseTrain
  \/ WriteTest
  \/ WriteLabelFile
  \/ CleanUpTemporaryFiles

InitConvert == AttentionInit /\ FactoryInit /\ MetricInit /\ ConvertStart

SpecConvert == InitConvert /\ [][NextConvert]_vars

(***************************************************************************)
(* Properties.                                                             *)
(***************************************************************************)
\* Call c holds what roformer_recompute_qkv computed (lines 49-61 are done).
Rotated(c) == pc[c] = "return"

\* angle[p][i] = p * freq[i], freq[i] = Base^(-2i/steps), in units of 1/Base radian.
Angle(p, i, steps) == p * Base ^ (1 - (2 * i) \div steps)

\* (x, y) turned by angle a: <<x cos a - y sin a, y cos a + x sin a>>.
Turn(x, y, a) ==
  <<Plus(Times(x, Cos(a)), Minus(Times(y, Sin(a)))),
    Plus(Times(y, Cos(a)), Times(x, Sin(a)))>>

Pairs(c) == 0 .. (key_dim[c] \div 2) - 1

\* x, its companion x2 and its rotation r obey the pair rule at every position.
PairRule(x, x2, r, len, c) ==
  \A p \in 0 .. len - 1 : \A i \in Pairs(c) :
    LET a == Angle(p, i, key_dim[c] \div 2)
        xy == <<x.at[p][2 * i], x.at[p][2 * i + 1]>>
    IN /\ x2.at[p][2 * i] = Minus(xy[2])
       /\ x2.at[p][2 * i + 1] = xy[1]
       /\ r.at[p][2 * i] = Plus(Times(xy[1], Cos(a)), Times(x2.at[p][2 * i], Sin(a)))
       /\ r.at[p][2 * i + 1] = Plus(Times(xy[2], Cos(a)), Times(x2.at[p][2 * i + 1], Sin(a)))
       /\ <<r.at[p][2 * i], r.at[p][2 * i + 1]>> = Turn(xy[1], xy[2], a)

\* C1: for every position p and every pair (2i, 2i+1) of a query or key
\* vector, the companion holds -features[2i+1] at 2i and features[2i] at 2i+1,
\* the result is features * cos + companion * sin, and so the pair (x, y)
\* becomes (x cos - y sin, y cos + x sin) for the angle of position p and
\* frequency index i.
C1_PairRotation ==
  \A c \in Calls : Rotated(c) =>
    /\ PairRule(q[c], q2[c], ret_q[c], q_len[c], c)
    /\ PairRule(k[c], k2[c], ret_w[c], k_len[c], c)

\* A rotation of width 4 is done, position 1 of the query holding 1, 2, 3, 4.
C1_Witness ==
  /\ Rotated(1) /\ key_dim[1] = 4 /\ q_len[1] >= 2 /\ k_len[1] >= 2
  /\ q[1].at[1][1] = Const(2) /\ k[1].at[1][1] = Const(2)

\* A table of an even width is built for the query / for the key of call c.
HasQTable(c) == IsTensor(q_sin_vec[c]) /\ key_dim[c] % 2 = 0
HasKTable(c) == IsTensor(k_sin_vec[c]) /\ key_dim[c] % 2 = 0

\* The tables hold, at coordinates 2i and 2i+1 of position p, the sine and
\* the cosine of p * freq[i], for every p in [0, len).
TableRule(sin_vec, cos_vec, len, c) ==
  /\ sin_vec.shape = <<len, key_dim[c]>>
  /\ cos_vec.shape = <<len, key_dim[c]>>
  /\ \A p \in 0 .. len - 1 : \A i \in Pairs(c) : \A j \in {2 * i, 2 * i + 1} :
       /\ sin_vec.at[p][j] = Sin(Angle(p, i, key_dim[c] \div 2))
       /\ cos_vec.at[p][j] = Cos(Angle(p, i, key_dim[c] \div 2))

\* C2: for every length and even width, the sin and cos tables have the full
\* width and coordinates 2i and 2i+1 of position p both hold the value of
\* frequency index i (duplicated in place, not tiled), for the angle
\* p * freq[i], positions counted from 0.
C2_TableDuplicated ==
  \A c \in Calls :
    /\ HasQTable(c) => TableRule(q_sin_vec[c], q_cos_vec[c], q_len[c], c)
    /\ HasKTable(c) => TableRule(k_sin_vec[c], k_cos_vec[c], k_len[c], c)

\* Both tables of a call of width 4 are built, for more than one position.
C2_Witness ==
  /\ HasQTable(1) /\ HasKTable(1) /\ key_dim[1] = 4 /\ q_len[1] >= 2 /\ k_len[1] >= 2

\* The row 1, 0, 1, 0.
Row1010 == [j \in 0 .. 3 |-> Const(1 - (j % 2))]

\* C3: with width 4 and length 2 the frequencies are 1.0 and 0.0001 radian
\* per position (Base and 1 angle units), and the row 1, 0, 1, 0 at position 1
\* becomes cos(1.0), sin(1.0), cos(0.0001), sin(0.0001).
C3_Scenario ==
  \A c \in Calls :
    (Rotated(c) /\ key_dim[c] = 4 /\ q_len[c] = 2 /\ q[c].at[1] = Row1010) =>
      /\ q_cos_vec[c].at[1] = [j \in 0 .. 3 |-> IF j < 2 THEN Cos(Base) ELSE Cos(1)]
      /\ q_sin_vec[c].at[1] = [j \in 0 .. 3 |-> IF j < 2 THEN Sin(Base) ELSE Sin(1)]
      /\ ret_q[c].at[1] = [j \in 0 .. 3 |->
                             IF j = 0 THEN Cos(Base) ELSE IF j = 1 THEN Sin(Base)
                             ELSE IF j = 2 THEN Cos(1) ELSE Sin(1)]

\* The scenario's rotation is done.
C3_Witness ==
  Rotated(1) /\ key_dim[1] = 4 /\ q_len[1] = 2 /\ q[1].at[1] = Row1010

\* C4: the third tensor roformer_recompute_qkv returns is the v passed in,
\* and the value call hands to the attention scorer is that projected value.
C4_ValueUntouched ==
  \A c \in Calls :
    /\ pc[c] \in {"attend", "output"} => value[c] = v[c]
    /\ pc[c] = "output" => attention[c][3] = v[c]

\* The scorer was called with the tensors of a rotation over two positions.
C4_Witness ==
  /\ pc[1] = "output" /\ key_dim[1] = 4 /\ k_len[1] >= 2
  /\ attention[1] = <<ret_q[1], ret_w[1], v[1]>>

\* Row x at position p, rotated.
RotatedRow(x, p, width) ==
  [j \in 0 .. width - 1 |->
     Turn(x[2 * (j \div 2)], x[2 * (j \div 2) + 1], Angle(p, j \div 2, width \div 2))[1 + (j % 2)]]

\* C5: the query and the key are rotated each by its own positions: query
\* position p in [0, T) by the angles of p, key position s in [0, S) by the
\* angles of s, also when T differs from S.
C5_OwnLength ==
  \A c \in Calls : Rotated(c) =>
    /\ ret_q[c].shape = q[c].shape
    /\ ret_w[c].shape = k[c].shape
    /\ \A p \in 0 .. q[c].shape[1] - 1 : ret_q[c].at[p] = RotatedRow(q[c].at[p], p, key_dim[c])
    /\ \A s \in 0 .. k[c].shape[1] - 1 : ret_w[c].at[s] = RotatedRow(k[c].at[s], s, key_dim[c])

\* A rotation is done for a query shorter than the key, and one for a longer.
C5_Witness ==
  Rotated(1) /\ key_dim[1] = 4 /\ q[1].shape[1] = 1 /\ k[1].shape[1] = MaxLen

\* C6: at position 0 every sine is 0 and every cosine is 1, and the rotated
\* query/key vector at position 0 is the input vector at position 0.
C6_ZeroPosition ==
  \A c \in Calls :
    /\ HasQTable(c) => \A j \in 0 .. key_dim[c] - 1 :
         q_sin_vec[c].at[0][j] = Const(0) /\ q_cos_vec[c].at[0][j] = Const(1)
    /\ HasKTable(c) => \A j \in 0 .. key_dim[c] - 1 :
         k_sin_vec[c].at[0][j] = Const(0) /\ k_cos_vec[c].at[0][j] = Const(1)
    /\ Rotated(c) => ret_q[c].at[0] = q[c].at[0] /\ ret_w[c].at[0] = k[c].at[0]

\* A rotation of rows 1, 2, 3, 4 at position 0 is done.
C6_Witness ==
  /\ Rotated(1) /\ key_dim[1] = 4
  /\ q[1].at[0][1] = Const(2) /\ k[1].at[0][1] = Const(2)

Square(x) == Times(x, x)

\* The pairs of r have the norms of the pairs of x wherever sin^2 + cos^2 = 1.
NormRule(x, r, sin_vec, cos_vec, len, c) ==
  \A p \in 0 .. len - 1 : \A i \in Pairs(c) :
    (\A j \in {2 * i, 2 * i + 1} :
       Plus(Square(sin_vec.at[p][j]), Square(cos_vec.at[p][j])) = Const(1)) =>
      Plus(Square(r.at[p][2 * i]), Square(r.at[p][2 * i + 1]))
        = Plus(Square(x.at[p][2 * i]), Square(x.at[p][2 * i + 1]))

\* C7: for every position and every pair (2i, 2i+1), the squared norm of the
\* rotated pair is that of the original pair, the sine and cosine used for
\* the pair satisfying sin^2 + cos^2 = 1.
C7_PairNorm ==
  \A c \in Calls : Rotated(c) =>
    /\ NormRule(q[c], ret_q[c], q_sin_vec[c], q_cos_vec[c], q_len[c], c)
    /\ NormRule(k[c], ret_w[c], k_sin_vec[c], k_cos_vec[c], k_len[c], c)

\* A rotation of rows 1, 2, 3, 4 away from position 0 is done, with tables
\* whose entries satisfy sin^2 + cos^2 = 1.
C7_Witness ==
  /\ Rotated(1) /\ key_dim[1] = 4 /\ q_len[1] >= 2 /\ k_len[1] >= 2
  /\ q[1].at[1][1] = Const(2) /\ k[1].at[1][1] = Const(2)
  /\ \A j \in 0 .. 3 :
       Plus(Square(q_sin_vec[1].at[1][j]), Square(q_cos_vec[1].at[1][j])) = Const(1)
  /\ ret_q[1].at[1] # q[1].at[1]

RECURSIVE DotUpTo(_, _, _)
DotUpTo(x, y, n) ==
  IF n = 0 THEN Const(0) ELSE Plus(DotUpTo(x, y, n - 1), Times(x[n - 1], y[n - 1]))

\* The dot product of two rows of the same width.
Dot(x, y, width) == DotUpTo(x, y, width)

\* C8: the dot product of a query vector rotated at p1 and a key vector
\* rotated at p2 depends only on the two vectors and on p1 - p2: the same
\* vectors at positions moved by the same amount give the same dot product.
C8_RelativePosition ==
  \A c \in Calls : Rotated(c) =>
    \A p1, r1 \in 0 .. q_len[c] - 1 : \A p2, r2 \in 0 .. k_len[c] - 1 :
      (/\ p1 < r1
       /\ p1 - p2 = r1 - r2
       /\ q[c].at[p1] = q[c].at[r1]
       /\ k[c].at[p2] = k[c].at[r2]) =>
        Dot(ret_q[c].at[p1], ret_w[c].at[p2], key_dim[c])
          = Dot(ret_q[c].at[r1], ret_w[c].at[r2], key_dim[c])

\* A rotation is done where the query 1, 2, 3, 4 stands at positions 0 and 1
\* and the key 1, 0, 1, 0 at positions 0 and 1, the rotated rows differing.
C8_Witness ==
  /\ Rotated(1) /\ key_dim[1] = 4 /\ q_len[1] >= 2 /\ k_len[1] >= 2
  /\ q[1].at[0] = q[1].at[1] /\ q[1].at[0][1] = Const(2)
  /\ k[1].at[0] = k[1].at[1] /\ k[1].at[0] = Row1010
  /\ ret_q[1].at[0] # ret_q[1].at[1]

\* The tables call c holds, each with the (length, width) it was built for.
Tables(c) ==
  (IF IsTensor(q_sin_vec[c]) THEN {<<q_len[c], key_dim[c], q_sin_vec[c], q_cos_vec[c]>>} ELSE {})
    \cup (IF IsTensor(k_sin_vec[c]) THEN {<<k_len[c], key_dim[c], k_sin_vec[c], k_cos_vec[c]>>} ELSE {})

C10_NoInterference ==
  \A c \in Calls :
    /\ pc[c] = "attend" =>
         <<query[c], key[c], value[c]>> = RoformerRecomputeQkv(q[c], k[c], v[c], key_dim[c])
    /\ pc[c] = "raised" =>
         ~IsTensor(RoformerRecomputeQkv(q[c], k[c], v[c], key_dim[c])[1])

\* A call of width 4 has returned from the rotation while a call of width 2
\* and another query length is in the middle of its own.
C10_Witness ==
  /\ pc[1] = "attend" /\ key_dim[1] = 4 /\ q_len[1] = 2
  /\ pc[2] = "ret_w" /\ key_dim[2] = 2 /\ q_len[2] = 1

\* C11: a rotation asked for on a layer of odd width ends in an error that
\* reaches the caller: it never comes to return a rotated query or key.
C11_OddWidthRaises ==
  \A c \in Calls : key_dim[c] % 2 = 1 =>
    /\ pc[c] \notin {"return", "attend", "output"}
    /\ ~IsTensor(ret_w[c])
    /\ ~IsTensor(query[c]) /\ ~IsTensor(key[c])
    /\ pc[c] = "raised" => ~IsTensor(q2[c])

\* A call on a layer of width 3 has raised at the stack of line 56, after
\* both tables were built.
C11_Witness ==
  /\ pc[1] = "raised" /\ key_dim[1] = 3
  /\ IsTensor(q_sin_vec[1]) /\ IsTensor(k_sin_vec[1])
  /\ q2[1] = ShapeError

C13_ResultResets ==
  /\ mf_pc = "returned" => predictions = <<>> /\ groundtruths = <<>>
  /\ mf_pc = "reset" => metric_result = Evaluate(groundtruths, predictions)
  /\ Len(predictions) = Len(groundtruths)
  /\ \E from \in 0 .. Len(added) :
       Zip(groundtruths, predictions) = SubSeq(added, from + 1, Len(added))

\* result() has returned the F-score 13/23 of one pair of masks, the
\* groundtruth (0, 1) and the prediction (1, 0.5), and the lists are empty.
C13_Witness ==
  /\ mf_pc = "returned"
  /\ metric_result = Rat(13, 23)
  /\ predictions = <<>> /\ groundtruths = <<>>

\* C14: when the train and the test TFRecord files are both in dataset_dir
\* already, main exits without re-creating them: as long as both hold what an
\* earlier run left, main has fetched nothing, written nothing and deleted
\* nothing, has not failed, and is nowhere past the return of line 229.
C14_ExitsWithoutRecreating ==
  (/\ cv_pc # "off"
   /\ files[GetOutputFilename("train")] = File(<<"earlier run">>)
   /\ files[GetOutputFilename("test")] = File(<<"earlier run">>))
  => /\ cv_pc \in {"start", "makedirs", "outputs", "exit"}
     /\ effects = <<>>
     /\ cv_error = ""

\* main has returned at line 229 from a directory that held both outputs and
\* the archive, but no labels file.
C14_Witness ==
  /\ cv_pc = "exit"
  /\ files[GetOutputFilename("train")] = File(<<"earlier run">>)
  /\ files[GetOutputFilename("test")] = File(<<"earlier run">>)
  /\ files[Tarball].present /\ ~files[LabelsFile].present
  /\ effects = <<>>

\* C15: with no dataset_dir supplied main raises ValueError, and does so before
\* it creates a directory, fetches a file or writes anything.
C15_NoDatasetDir ==
  (cv_pc # "off" /\ (~dataset_dir.given \/ dataset_dir.path = ""))
  => /\ cv_pc \in {"start", "raised"}
     /\ cv_pc = "raised" => cv_error = "ValueError"
     /\ effects = <<>>
     /\ ~exists
     /\ files = [e \in Entries |-> Absent]

\* main, started without the flag, has raised ValueError.
C15_Witness ==
  /\ cv_pc = "raised" /\ cv_error = "ValueError"
  /\ ~dataset_dir.given
  /\ effects = <<>> /\ ~exists

\* C16: once _download_and_uncompress_dataset has returned, whatever the
\* directory held before, cifar-10-batches-py is in dataset_dir.
C16_BatchesAfterDownload ==
  cv_pc = "train" => files[BatchDir].present

\* The directory held the archive but not the batches: nothing was fetched or
\* extracted, and main failed to open data_batch_1, leaving an empty train file.
C16_Witness ==
  /\ cv_pc = "raised" /\ cv_error = "NotFoundError"
  /\ files[Tarball] = File(<<"archive">>) /\ ~files[BatchDir].present
  /\ files[GetOutputFilename("train")] = File(<<>>)
  /\ effects = <<"TFRecordWriter">>
====
